---- MODULE Spec2Model ----
(***************************************************************************)
(* Model of src/app.py: the ContentEngine (prompt composition, one call of *)
(* the language model, parsing of the reply with the empty-set fallback)   *)
(* and the Streamlit page around it (the generate button handler).         *)
(*                                                                         *)
(* Texts are sequences of tokens.  The tokens "{" and "}" are the brace    *)
(* characters; every other token stands for a run of characters without    *)
(* braces.  Optional values are sequences of length at most one: <<>> is   *)
(* Python's None and <<x>> is the value x.                                 *)
(***************************************************************************)
EXTENDS Integers, Sequences, FiniteSets, TLC

VARIABLES
    pc,          \* "idle": before a step; "done": a script run or a call has ended
    op,          \* what the last step was: "none", "press", "call"
    llm_config,  \* the LLMConfig the engine was constructed from
    self_llm,    \* ContentEngine.llm
    call,        \* the inputs of the last step: the arguments of its generate_flashcards
                 \* call (made = TRUE), or the form's topic and count when none was made
    calls,       \* generate_flashcards calls made by the last step
    ret,         \* what that call did: returned value or raised error, prompt sent, ...
    overridden,  \* an earlier call on this engine was given an `llm` of its own
    page         \* what the page shows after the script run

vars == <<pc, op, llm_config, self_llm, call, calls, ret, overridden, page>>

-----------------------------------------------------------------------------
(* Bounds of the model *)

\* longest custom_instructions text, in tokens
MaxLen == 3
\* most elements in the flashcards list of a model reply
MaxCards == 2

(* Program constants *)

\* st.number_input(min_value=1, max_value=20)
MinValue == 1
MaxValue == 20
\* generate_flashcards(num: int = 10)
DefaultNum == 10
\* LLMConfig(max_tokens: int = 1500)
DefaultMaxTokens == 1500

-----------------------------------------------------------------------------
(* Texts *)

None == <<>>
Some(x) == <<x>>

RECURSIVE SeqsUpTo(_, _)
SeqsUpTo(S, n) ==
    IF n = 0 THEN {<<>>}
    ELSE LET shorter == SeqsUpTo(S, n - 1)
         IN  shorter \cup {Append(s, x) : s \in {t \in shorter : Len(t) = n - 1}, x \in S}

-----------------------------------------------------------------------------
(* LLMConfig and ContentEngine.__init__ *)

LLMConfig(api_key, custom_model) ==
    [api_key |-> api_key, model_name |-> "gpt-4o-mini", max_tokens |-> DefaultMaxTokens,
     custom_model |-> custom_model]

\* the page's configuration: LLMConfig(api_key=st.secrets["OPENAI_API_KEY"])
PageConfig == LLMConfig(Some("secret"), None)

LLMConfigs == {PageConfig, LLMConfig(None, None), LLMConfig(None, Some("custom_model"))}

ChatOpenAI(model, api_key, max_tokens) ==
    [cls |-> "ChatOpenAI", model |-> model, api_key |-> api_key, max_tokens |-> max_tokens]

CustomModel(name) ==
    [cls |-> name, model |-> "", api_key |-> None, max_tokens |-> 0]

_initialize_llm(config) ==
    IF config.custom_model # None
    THEN CustomModel(config.custom_model[1])
    ELSE ChatOpenAI(config.model_name, config.api_key, config.max_tokens)

-----------------------------------------------------------------------------
(* The schema: Flashcard and FlashcardSet, and the JSON values a reply holds *)

\* a JSON member: absent, null, a string (s is its text) or a value of another type
JMissing == [t |-> "missing", s |-> <<>>]
JNull == [t |-> "null", s |-> <<>>]
JObject == [t |-> "object", s |-> <<>>]
JStr(s) == [t |-> "string", s |-> s]

\* the JSON objects tried as elements of "flashcards"
CardObjects ==
    { [front |-> JStr(<<"q">>), back |-> JStr(<<"a">>), explanation |-> JMissing],
      [front |-> JStr(<<"q">>), back |-> JStr(<<"a">>), explanation |-> JStr(<<"e">>)],
      [front |-> JStr(<<"q">>), back |-> JStr(<<"a">>), explanation |-> JNull],
      [front |-> JStr(<<>>),    back |-> JStr(<<"a">>), explanation |-> JMissing],
      [front |-> JStr(<<"q">>), back |-> JStr(<<>>),    explanation |-> JStr(<<>>)],
      [front |-> JMissing,      back |-> JStr(<<"a">>), explanation |-> JMissing],
      [front |-> JStr(<<"q">>), back |-> JMissing,      explanation |-> JMissing],
      [front |-> JStr(<<"q">>), back |-> JObject,       explanation |-> JMissing],
      [front |-> JNull,         back |-> JStr(<<"a">>), explanation |-> JMissing],
      [front |-> JStr(<<"q">>), back |-> JStr(<<"a">>), explanation |-> JObject] }

TitleValues == {JMissing, JObject, JStr(<<>>), JStr(<<"T">>)}

\* a required field that is checked for presence only, not for its type
RequiredPresent(j) == j.t # "missing"

\* a required `str` field
RequiredStrOk(j) == j.t = "string"

\* an `Optional[str]` field with default None
OptionalStrOk(j) == j.t \in {"missing", "null", "string"}

OptionalStr(j) == IF j.t = "string" THEN Some(j.s) ELSE None

\* Flashcard validation of one JSON object
FlashcardOk(o) ==
    /\ RequiredStrOk(o.front)
    /\ RequiredStrOk(o.back)
    /\ OptionalStrOk(o.explanation)

Flashcard(o) ==
    [front |-> o.front.s, back |-> o.back.s, explanation |-> OptionalStr(o.explanation)]

\* the values generate_flashcards can return
NoValue == [cls |-> "None", title |-> <<>>, flashcards |-> <<>>, card |-> <<>>]

FlashcardSet(title, flashcards) ==
    [cls |-> "FlashcardSet", title |-> title, flashcards |-> flashcards, card |-> <<>>]

FlashcardValue(c) ==
    [cls |-> "Flashcard", title |-> <<>>, flashcards |-> <<>>, card |-> <<c>>]

-----------------------------------------------------------------------------
(* The text of a reply, by what json.loads makes of it *)

\* not JSON at all (plain prose)
Prose == [json |-> "invalid", title |-> JMissing, list |-> "missing", items |-> <<>>,
          card |-> <<>>]
\* valid JSON that is no object (a number, a list)
Scalar == [json |-> "scalar", title |-> JMissing, list |-> "missing", items |-> <<>>,
           card |-> <<>>]
\* a JSON object with members "title" and "flashcards" (a list of objects)
SetObject(title, items) ==
    [json |-> "object", title |-> title, list |-> "list", items |-> items, card |-> <<>>]
\* a JSON object whose "flashcards" is absent, or is no list
SetObjectNoList(title, how) ==
    [json |-> "object", title |-> title, list |-> how, items |-> <<>>, card |-> <<>>]
\* a JSON object with the members of one flashcard
CardObject(o) ==
    [json |-> "object", title |-> JMissing, list |-> "missing", items |-> <<>>,
     card |-> <<o>>]

Contents ==
    {Prose, Scalar}
    \cup {SetObject(t, items) : t \in TitleValues, items \in SeqsUpTo(CardObjects, MaxCards)}
    \cup {SetObjectNoList(JStr(<<"T">>), how) : how \in {"missing", "object"}}
    \cup {CardObject(o) : o \in CardObjects}

\* the replies used where the prompt is what is looked at
FewContents ==
    { Prose,
      SetObject(JStr(<<"T">>), <<>>),
      SetObject(JStr(<<"T">>),
                << [front |-> JStr(<<"q">>), back |-> JStr(<<"a">>), explanation |-> JMissing] >>) }

-----------------------------------------------------------------------------
(* Prompt composition *)

\* the default template: literal text with the placeholders {num} and {topic}
DefaultTemplate ==
    << "Generate a set of ", "{", "num", "}", " flashcards on the topic: ",
       "{", "topic", "}", ". For each flashcard, provide: ... explanation (optional)" >>

\* a caller's template, with a placeholder of its own that **kwargs must fill
CustomTemplate ==
    << "Make ", "{", "num", "}", " ", "{", "level", "}", " cards about ",
       "{", "topic", "}" >>

PromptTemplates == {None, Some(CustomTemplate)}

AdditionalHeader == "\n\nAdditional Instructions:\n"
JsonHeader == "\n\nThe response should be in JSON format.\n"

\* parser.get_format_instructions(): text that quotes the JSON schema, braces included
FormatInstructions(response_model) ==
    << "The output should be formatted as a JSON instance that conforms to the schema: ",
       "{", response_model, "}" >>

\* `if custom_instructions:` is false for None and for the empty text
Truthy(opt) == opt # None /\ opt[1] # <<>>

\* the template text built before PromptTemplate is constructed
ComposeTemplate(prompt_template, custom_instructions) ==
    LET base == IF prompt_template = None THEN DefaultTemplate ELSE prompt_template[1]
        withCustom == IF Truthy(custom_instructions)
                      THEN base \o <<AdditionalHeader>> \o custom_instructions[1]
                      ELSE base
    IN  withCustom \o <<JsonHeader, "{", "format_instructions", "}">>

\* position of the first "}" at or after i, or 0
RECURSIVE ClosingBrace(_, _)
ClosingBrace(tpl, i) ==
    IF i > Len(tpl) THEN 0
    ELSE IF tpl[i] = "}" THEN i
    ELSE ClosingBrace(tpl, i + 1)

FormatFailed(err) == [ok |-> FALSE, err |-> err, out |-> <<>>]

Emit(text, rest) ==
    IF rest.ok THEN [ok |-> TRUE, err |-> "", out |-> text \o rest.out] ELSE rest

\* f-string template formatting: "{{" and "}}" are escaped braces, "{name}" is
\* replaced by the variable's value (not formatted again); a brace on its own is a
\* ValueError, a name without a value a KeyError, an empty name an IndexError
\* (string.Formatter, which the template's f-string format goes through)
RECURSIVE FormatFrom(_, _, _)
FormatFrom(tpl, i, variables) ==
    IF i > Len(tpl) THEN [ok |-> TRUE, err |-> "", out |-> <<>>]
    ELSE IF tpl[i] = "{" THEN
        IF i < Len(tpl) /\ tpl[i + 1] = "{"
        THEN Emit(<<"{">>, FormatFrom(tpl, i + 2, variables))
        ELSE LET j == ClosingBrace(tpl, i + 1)
             IN  IF j = 0 \/ \E k \in (i + 1)..(j - 1) : tpl[k] = "{"
                 THEN FormatFailed("ValueError")
                 ELSE IF j = i + 1 THEN FormatFailed("IndexError")
                 ELSE IF j = i + 2 /\ tpl[i + 1] \in DOMAIN variables
                 THEN Emit(variables[tpl[i + 1]], FormatFrom(tpl, j + 1, variables))
                 ELSE FormatFailed("KeyError")
    ELSE IF tpl[i] = "}" THEN
        IF i < Len(tpl) /\ tpl[i + 1] = "}"
        THEN Emit(<<"}">>, FormatFrom(tpl, i + 2, variables))
        ELSE FormatFailed("ValueError")
    ELSE Emit(<<tpl[i]>>, FormatFrom(tpl, i + 1, variables))

Format(tpl, variables) == FormatFrom(tpl, 1, variables)

\* **kwargs: the only extra keyword tried is `level`
NoKwargs == [level |-> None]
Kwargs == {NoKwargs, [level |-> Some(<<"hard">>)]}

\* {"num": num, "topic": topic, **kwargs} and the partial variable
PromptVariables(topic, num, kwargs, format_instructions) ==
    [k \in {"num", "topic", "format_instructions"} \cup {n \in DOMAIN kwargs : kwargs[n] # None} |->
        CASE k = "num" -> <<ToString(num)>>
          [] k = "topic" -> topic
          [] k = "format_instructions" -> format_instructions
          [] OTHER -> kwargs[k][1]]

-----------------------------------------------------------------------------
(* Parsing of the reply *)

ParseFailed == [ok |-> FALSE, value |-> NoValue]

\* the elements of `items` that are valid flashcards, in order
RECURSIVE ValidItems(_)
ValidItems(items) ==
    IF items = <<>> THEN <<>>
    ELSE IF FlashcardOk(Head(items)) THEN <<Head(items)>> \o ValidItems(Tail(items))
    ELSE ValidItems(Tail(items))

\* a parser that skips the elements that fail validation and keeps the rest
ParseFlashcardSetPartial(content) ==
    IF /\ content.json = "object"
       /\ RequiredStrOk(content.title)
       /\ content.list = "list"
    THEN LET kept == ValidItems(content.items)
         IN  [ok |-> TRUE,
              value |-> FlashcardSet(content.title.s,
                                     [i \in 1..Len(kept) |-> Flashcard(kept[i])])]
    ELSE ParseFailed

\* a parser that keeps only the first element of the list
ParseFlashcardSetFirstOnly(content) ==
    IF /\ content.json = "object"
       /\ RequiredStrOk(content.title)
       /\ content.list = "list"
       /\ \A i \in 1..Len(content.items) : FlashcardOk(content.items[i])
    THEN [ok |-> TRUE,
          value |-> FlashcardSet(content.title.s,
                                 [i \in 1..(IF content.items = <<>> THEN 0 ELSE 1) |->
                                     Flashcard(content.items[i])])]
    ELSE ParseFailed

ParseFlashcardSet(content) ==
    IF /\ content.json = "object"
       /\ RequiredStrOk(content.title)
       /\ content.list = "list"
       /\ \A i \in 1..Len(content.items) : FlashcardOk(content.items[i])
    THEN [ok |-> TRUE,
          value |-> FlashcardSet(content.title.s,
                                 [i \in 1..Len(content.items) |-> Flashcard(content.items[i])])]
    ELSE ParseFailed

ParseFlashcard(content) ==
    IF /\ content.json = "object"
       /\ content.card # <<>>
       /\ FlashcardOk(content.card[1])
    THEN [ok |-> TRUE, value |-> FlashcardValue(Flashcard(content.card[1]))]
    ELSE ParseFailed

\* parser.parse(results.content)
Parse(response_model, content) ==
    IF response_model = "FlashcardSet" THEN ParseFlashcardSet(content)
    ELSE ParseFlashcard(content)

\* a fallback that holds a placeholder card
FallbackWithCard(topic) ==
    FlashcardSet(topic, << [front |-> topic, back |-> <<>>, explanation |-> None] >>)

\* FlashcardSet(title=topic, flashcards=[])
Fallback(topic) == FlashcardSet(topic, <<>>)

-----------------------------------------------------------------------------
(* The remote model: what one invocation does *)

RemoteErrors == {"AuthenticationError", "APIConnectionError", "InternalServerError"}

RemoteFailure(e) == [error |-> Some(e), content |-> Prose]
Message(content) == [error |-> None, content |-> content]

Replies == {RemoteFailure(e) : e \in RemoteErrors} \cup {Message(c) : c \in Contents}
FewReplies == {RemoteFailure("AuthenticationError")} \cup {Message(c) : c \in FewContents}

-----------------------------------------------------------------------------
(* ContentEngine.generate_flashcards *)

\* the engine's own llm, whatever the call passes
LlmOfEngine(engine_llm, llm) == engine_llm

\* llm if llm is not None else self.llm
LlmToUse(engine_llm, llm) == IF llm # None THEN llm[1] ELSE engine_llm

NoStdout == [error |-> FALSE, raw |-> None]

Raised(err, path, prompt, invocations, used) ==
    [raised |-> Some(err), value |-> NoValue, path |-> path, prompt |-> prompt,
     invocations |-> invocations, llm_used |-> used, stdout |-> NoStdout]

Returned(value, path, prompt, used, stdout) ==
    [raised |-> None, value |-> value, path |-> path, prompt |-> Some(prompt),
     invocations |-> 1, llm_used |-> Some(used), stdout |-> stdout]

generate_flashcards(engine_llm, topic, num, prompt_template, custom_instructions, response_model, llm, kwargs, reply) ==
    LET model == IF response_model = None THEN "FlashcardSet" ELSE response_model[1]
        format_instructions == FormatInstructions(model)
        template == ComposeTemplate(prompt_template, custom_instructions)
        prompt == Format(template, PromptVariables(topic, num, kwargs, format_instructions))
        llm_to_use == LlmToUse(engine_llm, llm)
        parsed == Parse(model, reply.content)
    IN  IF ~prompt.ok
        THEN Raised(prompt.err, "prompt_error", None, 0, None)
        ELSE IF reply.error # None
        THEN Raised(reply.error[1], "remote_error", Some(prompt.out), 1, Some(llm_to_use))
        ELSE IF parsed.ok
        THEN Returned(parsed.value, "parsed", prompt.out, llm_to_use, NoStdout)
        ELSE Returned(Fallback(topic), "fallback", prompt.out, llm_to_use,
                      [error |-> TRUE, raw |-> Some(reply.content)])

-----------------------------------------------------------------------------
(* The page *)

EmptyPage == [warning |-> FALSE, success |-> None, expanders |-> <<>>, exception |-> None]

\* st.expander(front) with the back and, if it is truthy, the explanation
Expander(card) ==
    [label |-> card.front, back |-> card.back,
     explanation |-> IF Truthy(card.explanation) THEN card.explanation ELSE None]

SuccessPage(flashcard_set) ==
    [warning |-> FALSE,
     success |-> Some([count |-> Len(flashcard_set.flashcards), title |-> flashcard_set.title]),
     expanders |-> [i \in 1..Len(flashcard_set.flashcards) |-> Expander(flashcard_set.flashcards[i])],
     exception |-> None]

WarningPage == [warning |-> TRUE, success |-> None, expanders |-> <<>>, exception |-> None]

\* an exception that leaves the script is rendered by Streamlit in place of the results
ExceptionPage(err) ==
    [warning |-> FALSE, success |-> None, expanders |-> <<>>, exception |-> Some(err)]

\* a handler that does not look at the topic
TopicNotChecked(topic) == TRUE

\* `if topic:`
TopicGiven(topic) == topic # <<>>

NoCall == [made |-> FALSE, topic |-> <<>>, num |-> 0, prompt_template |-> None,
           custom_instructions |-> None, response_model |-> None, llm |-> None,
           kwargs |-> NoKwargs, reply |-> Message(Prose)]

Call(topic, num, prompt_template, custom_instructions, response_model, llm, kwargs, reply) ==
    [made |-> TRUE, topic |-> topic, num |-> num, prompt_template |-> prompt_template,
     custom_instructions |-> custom_instructions, response_model |-> response_model,
     llm |-> llm, kwargs |-> kwargs, reply |-> reply]

NoRet == [raised |-> None, value |-> NoValue, path |-> "none", prompt |-> None,
          invocations |-> 0, llm_used |-> None, stdout |-> NoStdout]

\* what the topic input can hold
Topics == {<<>>, <<"Python">>, <<"{", "a", "}">>}

\* what st.number_input can hold
Counts == MinValue..MaxValue

\* the page after the button handler
Render(topic, result) ==
    IF ~TopicGiven(topic) THEN WarningPage
    ELSE IF result.raised # None THEN ExceptionPage(result.raised[1])
    ELSE SuccessPage(result.value)

\* one script run with the generate button pressed
Press(topic, num_cards, reply) ==
    LET engine_llm == _initialize_llm(PageConfig)
        result == generate_flashcards(engine_llm, topic, num_cards, None, None, None, None,
                                      NoKwargs, reply)
    IN  /\ pc' = "done"
        /\ op' = "press"
        /\ llm_config' = PageConfig
        /\ self_llm' = engine_llm
        /\ overridden' = FALSE
        /\ IF TopicGiven(topic)
           THEN /\ call' = Call(topic, num_cards, None, None, None, None, NoKwargs, reply)
                /\ calls' = 1
                /\ ret' = result
           ELSE /\ call' = [NoCall EXCEPT !.topic = topic, !.num = num_cards]
                /\ calls' = 0
                /\ ret' = NoRet
        /\ page' = Render(topic, result)

PressButton ==
    /\ pc = "idle"
    /\ \E topic \in Topics, n \in Counts, reply \in Replies : Press(topic, n, reply)

\* the next script run starts from an empty page and a fresh engine
Rerun ==
    /\ pc = "done"
    /\ op = "press"
    /\ pc' = "idle"
    /\ op' = "none"
    /\ call' = NoCall
    /\ calls' = 0
    /\ ret' = NoRet
    /\ page' = EmptyPage
    /\ UNCHANGED <<llm_config, self_llm, overridden>>

-----------------------------------------------------------------------------
(* Calls of the engine by a program that imports it *)

CustomInstructionTokens == {"a", "topic", "{", "}"}
CustomInstructions == {None} \cup {Some(t) : t \in SeqsUpTo(CustomInstructionTokens, MaxLen)}

LlmOverrides == {None, Some(CustomModel("override"))}
ResponseModels == {None, Some("FlashcardSet"), Some("Flashcard")}
Nums == {MinValue, DefaultNum}

ApiCall(topic, num, prompt_template, custom_instructions, response_model, llm, kwargs, reply) ==
    /\ pc' = "done"
    /\ op' = "call"
    /\ call' = Call(topic, num, prompt_template, custom_instructions, response_model, llm,
                    kwargs, reply)
    /\ calls' = 1
    /\ ret' = generate_flashcards(self_llm, topic, num, prompt_template, custom_instructions,
                                  response_model, llm, kwargs, reply)
    /\ overridden' = (overridden \/ llm # None)
    /\ UNCHANGED <<llm_config, self_llm, page>>

\* calls that vary the reply
CallWithReply ==
    /\ pc = "idle"
    /\ \E topic \in Topics, num \in Nums, rm \in ResponseModels, llm \in LlmOverrides,
       reply \in Replies :
        ApiCall(topic, num, None, None, rm, llm, NoKwargs, reply)

\* calls that vary the prompt
CallWithInstructions ==
    /\ pc = "idle"
    /\ \E topic \in Topics, pt \in PromptTemplates, ci \in CustomInstructions,
       llm \in LlmOverrides, kwargs \in Kwargs, reply \in FewReplies :
        ApiCall(topic, DefaultNum, pt, ci, None, llm, kwargs, reply)

\* the caller takes the result; the engine stays
Return ==
    /\ pc = "done"
    /\ op = "call"
    /\ pc' = "idle"
    /\ op' = "none"
    /\ call' = NoCall
    /\ calls' = 0
    /\ ret' = NoRet
    /\ UNCHANGED <<llm_config, self_llm, overridden, page>>

-----------------------------------------------------------------------------
(* Specifications *)

Idle ==
    /\ pc = "idle"
    /\ op = "none"
    /\ call = NoCall
    /\ calls = 0
    /\ ret = NoRet
    /\ overridden = FALSE
    /\ page = EmptyPage

\* the page: the engine is built from the page's configuration
InitPage ==
    /\ Idle
    /\ llm_config = PageConfig
    /\ self_llm = _initialize_llm(PageConfig)

NextPage == PressButton \/ Rerun

SpecPage == InitPage /\ [][NextPage]_vars

\* the engine as a library: built from any configuration
InitEngine ==
    /\ Idle
    /\ llm_config \in LLMConfigs
    /\ self_llm = _initialize_llm(llm_config)

NextEngine == CallWithReply \/ CallWithInstructions \/ Return

SpecEngine == InitEngine /\ [][NextEngine]_vars

-----------------------------------------------------------------------------
(* Properties *)

\* a generate_flashcards call has ended
CallEnded == pc = "done" /\ call.made

\* the remote model was invoked and answered with a text
Replied == CallEnded /\ ret.invocations = 1 /\ call.reply.error = None

DefaultModel == call.response_model = None

\* the call handed a FlashcardSet back to its caller
ReturnedSet == CallEnded /\ ret.raised = None /\ ret.value.cls = "FlashcardSet"

\* the reply text is no JSON, or no JSON object, or an object that misses `title`,
\* `flashcards`, or `front` or `back` on some element, or has a member of a wrong type
Malformed(content) ==
    \/ content.json # "object"
    \/ content.title.t # "string"
    \/ content.list # "list"
    \/ \E i \in 1..Len(content.items) :
          \/ content.items[i].front.t # "string"
          \/ content.items[i].back.t # "string"
          \/ content.items[i].explanation.t = "object"

\* C1: whenever the model's reply text does not parse into the schema, a call
\* with the default response model raises nothing and returns exactly
\* {title: topic, flashcards: []}: one bad element discards the whole set.
C1_ParseFailureFallback ==
    (Replied /\ DefaultModel /\ Malformed(call.reply.content))
        => /\ ret.raised = None
           /\ ret.value = FlashcardSet(call.topic, <<>>)

\* C1 witness: a reply whose list holds a valid card and a card without `front`
\* was answered with the empty set titled by the topic.
C1_Witness ==
    /\ Replied /\ DefaultModel
    /\ call.topic # <<>>
    /\ Len(call.reply.content.items) = 2
    /\ FlashcardOk(call.reply.content.items[1])
    /\ call.reply.content.items[2].front.t = "missing"
    /\ ret.path = "fallback"
    /\ ret.value = FlashcardSet(call.topic, <<>>)

\* C2: a press of the generate button with an empty topic makes no
\* generate_flashcards call and no model invocation, and shows the warning and
\* neither a success message nor a card.
C2_EmptyTopicNoCall ==
    (pc = "done" /\ op = "press" /\ call.topic = <<>>)
        => /\ calls = 0
           /\ ~call.made
           /\ ret.invocations = 0
           /\ page.warning
           /\ page.success = None
           /\ page.expanders = <<>>

\* C2 witness: the button was pressed with an empty topic and the warning is shown.
C2_Witness ==
    /\ pc = "done" /\ op = "press"
    /\ call.topic = <<>>
    /\ page.warning

\* the case of C3: non-empty topic, count in 1..20, a reply that conforms to the schema
ConformingCase ==
    /\ Replied /\ DefaultModel
    /\ call.topic # <<>>
    /\ call.num \in MinValue..MaxValue
    /\ ~Malformed(call.reply.content)

\* C3 as claimed: in that case the returned set has exactly `num` flashcards and
\* a non-empty title.
C3_LengthEqualsCount ==
    ConformingCase
        => /\ ReturnedSet
           /\ Len(ret.value.flashcards) = call.num
           /\ ret.value.title # <<>>

\* C3 as amended: in that case the returned set is the reply's own: as many
\* flashcards as the reply lists and the reply's title, whatever `num` is.
C3_LengthEqualsReply ==
    ConformingCase
        => /\ ReturnedSet
           /\ ret.path = "parsed"
           /\ Len(ret.value.flashcards) = Len(call.reply.content.items)
           /\ ret.value.title = call.reply.content.title.s

\* C3 witness: a conforming reply with two cards and an empty title was returned
\* as it is to a call that asked for ten.
C3_Witness ==
    /\ ConformingCase
    /\ call.num = DefaultNum
    /\ Len(call.reply.content.items) = 2
    /\ Len(ret.value.flashcards) = 2
    /\ ret.value.title = <<>>

\* C4 as claimed: a returned set has between 0 and `num` flashcards, and 0 only
\* on the fallback path.
C4_LengthWithinCount ==
    (ReturnedSet /\ DefaultModel)
        => /\ Len(ret.value.flashcards) <= call.num
           /\ (Len(ret.value.flashcards) = 0 => ret.path = "fallback")

\* C4 as amended: a set returned on the fallback path has 0 flashcards, and a
\* set returned after a successful parse has as many flashcards as the reply
\* lists, which may be 0 or more than `num`.
C4_LengthByPath ==
    (ReturnedSet /\ DefaultModel)
        => /\ ret.path \in {"fallback", "parsed"}
           /\ (ret.path = "fallback" => Len(ret.value.flashcards) = 0)
           /\ (ret.path = "parsed"
                 => Len(ret.value.flashcards) = Len(call.reply.content.items))

\* C4 witness: a successful parse returned more flashcards than were asked for.
C4_Witness ==
    /\ ReturnedSet /\ DefaultModel
    /\ ret.path = "parsed"
    /\ Len(ret.value.flashcards) > call.num

\* the generation started by a button press failed: the prompt, the remote call
\* or the parse
GenerationFailed ==
    /\ pc = "done" /\ op = "press"
    /\ call.made
    /\ ret.path \in {"prompt_error", "remote_error", "fallback"}

\* C5: when the generation started by a button press fails for any reason, the
\* page reports 0 generated flashcards and no exception reaches the page.
C5_FailureShowsZeroCards ==
    GenerationFailed
        => /\ page.exception = None
           /\ page.success # None
           /\ page.success[1].count = 0

\* the caller's own template and keyword arguments compose a prompt: the same
\* call without custom instructions raises nothing before the remote call
BasePromptOk ==
    Format(ComposeTemplate(call.prompt_template, None),
           PromptVariables(call.topic, call.num, call.kwargs, FormatInstructions("FlashcardSet"))).ok

\* the prompt of the same call without custom instructions, up to the JSON part
BasePrompt ==
    Format(IF call.prompt_template = None THEN DefaultTemplate ELSE call.prompt_template[1],
           PromptVariables(call.topic, call.num, call.kwargs, FormatInstructions("FlashcardSet"))).out

\* C6: for a call whose own template and keyword arguments compose a prompt,
\* the only failure surfaced is that of the remote call itself, which propagates
\* with no value returned; once the remote call has returned, the call returns
\* a value.
C6_OnlyRemoteFailuresSurface ==
    (CallEnded /\ BasePromptOk)
        => /\ (ret.raised # None
                 => /\ ret.invocations = 1
                    /\ call.reply.error # None
                    /\ ret.raised = call.reply.error
                    /\ ret.value = NoValue)
           /\ ((ret.invocations = 1 /\ call.reply.error = None) => ret.raised = None)

\* C7: non-empty custom instructions reach the model character for character,
\* after the base instructions and before the JSON format instructions, braces
\* or not.
C7_CustomInstructionsVerbatim ==
    (CallEnded /\ DefaultModel /\ Truthy(call.custom_instructions) /\ BasePromptOk)
        => ret.prompt = Some(BasePrompt
                             \o <<AdditionalHeader>> \o call.custom_instructions[1]
                             \o <<JsonHeader>> \o FormatInstructions("FlashcardSet"))

\* C8: every call whose own template and keyword arguments compose a prompt
\* invokes the remote model exactly once, whatever the outcome, and every press
\* with a non-empty topic makes exactly one call.
C8_ExactlyOneInvocation ==
    /\ (CallEnded /\ BasePromptOk) => ret.invocations = 1
    /\ (pc = "done" /\ op = "press" /\ call.topic # <<>>) => (calls = 1 /\ call.made)

\* C9 as claimed: every flashcard of a returned set has a non-empty front and a
\* non-empty back.
C9_NonEmptySides ==
    ReturnedSet
        => \A i \in 1..Len(ret.value.flashcards) :
              /\ ret.value.flashcards[i].front # <<>>
              /\ ret.value.flashcards[i].back # <<>>

\* C9 as amended: every flashcard of a returned set has the front and the back
\* that the reply gave as strings, empty or not; an element whose front or back
\* is absent, null or not a string is never returned.
C9_SidesAreStrings ==
    (ReturnedSet /\ DefaultModel /\ ret.path = "parsed")
        => /\ Len(ret.value.flashcards) = Len(call.reply.content.items)
           /\ \A i \in 1..Len(call.reply.content.items) :
                 /\ call.reply.content.items[i].front.t = "string"
                 /\ call.reply.content.items[i].back.t = "string"
                 /\ ret.value.flashcards[i].front = call.reply.content.items[i].front.s
                 /\ ret.value.flashcards[i].back = call.reply.content.items[i].back.s

\* C9 witness: a card with an empty front was returned by a successful parse.
C9_Witness ==
    /\ ReturnedSet /\ DefaultModel
    /\ ret.path = "parsed"
    /\ \E i \in 1..Len(ret.value.flashcards) : ret.value.flashcards[i].front = <<>>

\* C10: the engine's llm stays the one it was constructed with, and a call uses
\* its own `llm` argument if it has one and the constructed llm otherwise,
\* whatever earlier calls passed.
C10_EngineUnchanged ==
    /\ self_llm = _initialize_llm(llm_config)
    /\ (CallEnded /\ ret.llm_used # None)
          => ret.llm_used = Some(IF call.llm # None THEN call.llm[1]
                                 ELSE _initialize_llm(llm_config))

\* C10 witness: after an earlier call with an `llm` of its own, with a custom
\* template and custom instructions, a call without one used the constructed llm.
C10_Witness ==
    /\ CallEnded /\ op = "call"
    /\ overridden
    /\ call.llm = None
    /\ ret.llm_used = Some(_initialize_llm(llm_config))
    /\ self_llm = _initialize_llm(llm_config)

====
